---- MODULE Spec2Model ----
(***************************************************************************)
(* Model of src/main.rs: the in-memory book store BOOKS                    *)
(* (Arc<RwLock<Vec<Book>>>) and the five actix handlers get_books,         *)
(* get_book, create_book, update_book and delete_book that work on it.     *)
(*                                                                         *)
(* Every handler is a sequence of steps, one per statement that touches    *)
(* the lock or the vector: it awaits the lock (line 35/43/54/68/83), runs  *)
(* its body on the vector, builds the HttpResponse and then returns, which *)
(* drops the guard.  Several handlers run concurrently, one per process    *)
(* of Procs.                                                               *)
(*                                                                         *)
(* Conventions: Vec indices are 1-based here (0-based in Rust) and the     *)
(* Option<usize>/Option<&Book> value None is the index 0.  The i32 cast of *)
(* line 55 cannot wrap within the bounds below (it needs 2^31 - 1 stored   *)
(* books).                                                                 *)
(***************************************************************************)
EXTENDS Integers, Sequences, FiniteSets, TLC

(* ------------------------------ bounds --------------------------------- *)

\* number of request handlers that may run at the same time
NumProcs == 2

\* number of create requests served in one run (caps the growth of the Vec)
MaxCreates == 3

Procs == 1 .. NumProcs

\* ids a client may put in the path: 0 is never stored, 1 .. MaxCreates can be
IdInputs == 0 .. MaxCreates

\* the NewBook bodies a client may send (struct NewBook, lines 19-22)
NewBook == {[title |-> "T1", author |-> "A1"], [title |-> "T2", author |-> "A2"]}

Ops == {"list", "get", "create", "update", "delete"}

ReadOps == {"list", "get"}

WriteOps == {"create", "update", "delete"}

(* ------------------------------ data ----------------------------------- *)

\* struct Book (lines 11-15)
Book(i, t, a) == [id |-> i, title |-> t, author |-> a]

NoBook == Book(0, "", "")

NoReq == [op |-> "none", method |-> "", path |-> "", id |-> 0, title |-> "", author |-> ""]

NoLoc == [index |-> 0, book |-> NoBook, snap |-> << >>]

NoResp == [status |-> 0, body |-> << >>]

\* serde_json of a Book (derive(Serialize), lines 10-15): the fields in
\* declaration order, the id as a number token, the strings as string tokens
JsonBook(b) == <<"{", "id", ToString(b.id), "title", b.title, "author", b.author, "}">>

RECURSIVE JsonItems(_)
JsonItems(bs) ==
    IF bs = << >> THEN << >> ELSE JsonBook(Head(bs)) \o JsonItems(Tail(bs))

\* serde_json of a Vec<Book>
JsonBooks(bs) == <<"[">> \o JsonItems(bs) \o <<"]">>

\* HttpResponse::Ok().json(..)
Ok(body) == [status |-> 200, body |-> body]

\* a create that answers 200 instead of 201
CreatedAsOk(body) == [status |-> 200, body |-> body]

\* HttpResponse::Created().json(..)
Created(body) == [status |-> 201, body |-> body]

\* HttpResponse::NotFound().body("Book not found")
NotFound == [status |-> 404, body |-> <<"Book not found">>]

\* HttpResponse::Ok().body("Book deleted")
Deleted == [status |-> 200, body |-> <<"Book deleted">>]

(* ------------------------- Vec<Book> operations ------------------------ *)

\* books.iter().position(|b| b.id == id), also the element that
\* iter().find / iter_mut().find return: a linear scan from the front that
\* stops at the first match; 0 stands for None
RECURSIVE Scan(_, _, _)
Scan(bs, id, i) ==
    IF i > Len(bs) THEN 0
    ELSE IF bs[i].id = id THEN i
    ELSE Scan(bs, id, i + 1)

\* a scan from the back: the last match instead of the first
RECURSIVE ScanBack(_, _, _)
ScanBack(bs, id, i) ==
    IF i < 1 THEN 0
    ELSE IF bs[i].id = id THEN i
    ELSE ScanBack(bs, id, i - 1)

PositionFromBack(bs, id) == ScanBack(bs, id, Len(bs))

\* a scan that falls back to the last element instead of None
PositionOrLast(bs, id) == IF Scan(bs, id, 1) = 0 THEN Len(bs) ELSE Scan(bs, id, 1)

Position(bs, id) == Scan(bs, id, 1)

\* an insert at the front instead of a push at the back
VecPushFront(v, x) == <<x>> \o v

\* Vec::push
VecPush(v, x) == Append(v, x)

\* Vec::swap_remove: the last element takes the place of the removed one
VecSwapRemove(v, i) ==
    IF i = Len(v) THEN SubSeq(v, 1, Len(v) - 1)
    ELSE [SubSeq(v, 1, Len(v) - 1) EXCEPT ![i] = v[Len(v)]]

\* Vec::remove(index): removes the element and shifts the later ones left
VecRemove(v, i) == SubSeq(v, 1, i - 1) \o SubSeq(v, i + 1, Len(v))

\* the largest stored id, 0 for the empty vector
RECURSIVE MaxIdOf(_)
MaxIdOf(bs) ==
    IF bs = << >> THEN 0
    ELSE IF Head(bs).id > MaxIdOf(Tail(bs)) THEN Head(bs).id ELSE MaxIdOf(Tail(bs))

\* an id that is never issued twice: one more than the largest stored id
NewIdAboveMax(bs) == MaxIdOf(bs) + 1

\* an id counted from 0: the length without the + 1
NewIdFromZero(bs) == Len(bs)

\* let id = books.len() as i32 + 1 (line 55)
NewId(bs) == Len(bs) + 1

\* the ids of a sequence of books, in order
IdsOf(bs) == [i \in 1 .. Len(bs) |-> bs[i].id]

(* ------------------------------ the lock ------------------------------- *)

\* tokio::sync::RwLock (line 4) as a writer slot and a set of readers.  Its
\* FIFO queue of waiters only restricts the order in which waiting handlers
\* are admitted, so every admission order of the real lock is one of these.

\* a read access that does not wait for the writer
CanReadAlways(w, rs) == TRUE

\* RwLock::read() is granted while no writer holds the lock
CanRead(w, rs) == w = 0

\* a write access that does not wait for anybody
CanWriteAlways(w, rs) == TRUE

\* RwLock::write() is granted while nobody holds the lock
CanWrite(w, rs) == w = 0 /\ rs = {}

(* ------------------------------ state ---------------------------------- *)

VARIABLES
    books,        \* the Vec<Book> inside BOOKS
    writer,       \* the process holding the write guard, 0 for none
    readers,      \* the processes holding a read guard
    pc,           \* pc[p]: the statement handler p is at
    req,          \* req[p]: the request p serves (handler, method, path, id, body)
    loc,          \* loc[p]: the handler's locals (found index, new book, clone)
    resp,         \* resp[p]: the HttpResponse p has built
    pre,          \* pre[p]: the vector as p's body first saw it (history)
    last,         \* the request that built its response most recently (history)
    born,         \* born[i]: the serial number of the create that pushed books[i] (history)
    ncreated,     \* number of pushes so far (history)
    script        \* script[t]: the answers test t has received and the status of
                  \* the last one; empty when no test runs

vars == <<books, writer, readers, pc, req, loc, resp, pre, last, born, ncreated, script>>

NoLast == [op |-> "none", id |-> 0, title |-> "", author |-> "",
           pre |-> << >>, post |-> << >>, resp |-> NoResp]

\* static ref BOOKS = Arc::new(RwLock::new(vec![])), no request in flight
Init ==
    /\ books = << >>
    /\ writer = 0
    /\ readers = {}
    /\ pc = [p \in Procs |-> "idle"]
    /\ req = [p \in Procs |-> NoReq]
    /\ loc = [p \in Procs |-> NoLoc]
    /\ resp = [p \in Procs |-> NoResp]
    /\ pre = [p \in Procs |-> << >>]
    /\ last = NoLast
    /\ born = << >>
    /\ ncreated = 0
    /\ script = << >>

\* create requests accepted whose push is still to come
PendingCreates == {p \in Procs : req[p].op = "create" /\ pc[p] \in {"acquire", "len", "push"}}

(* ------------------------------ actions -------------------------------- *)

\* the typed inputs of the five handlers (lines 33, 41, 52, 66, 81), each
\* with the method and path of the route that its handler is written for:
\* GET /books, GET /books/{id}, POST /books with a NewBook, PUT /books/{id}
\* with a NewBook, DELETE /books/{id}
Requests ==
    {[op |-> "list", method |-> "GET", path |-> "/books",
      id |-> 0, title |-> "", author |-> ""]}
    \cup {[op |-> "get", method |-> "GET", path |-> "/books/{id}",
           id |-> i, title |-> "", author |-> ""] : i \in IdInputs}
    \cup {[op |-> "create", method |-> "POST", path |-> "/books",
           id |-> 0, title |-> nb.title, author |-> nb.author] : nb \in NewBook}
    \cup {[op |-> "update", method |-> "PUT", path |-> "/books/{id}",
           id |-> i, title |-> nb.title, author |-> nb.author] :
              i \in IdInputs, nb \in NewBook}
    \cup {[op |-> "delete", method |-> "DELETE", path |-> "/books/{id}",
           id |-> i, title |-> "", author |-> ""] : i \in IdInputs}

\* a request with an operation of ops reaches its handler, run by the free
\* process p
StartOp(p, ops) ==
    /\ pc[p] = "idle"
    /\ \E r \in Requests :
          /\ r.op \in ops
          /\ r.op = "create" => ncreated + Cardinality(PendingCreates) < MaxCreates
          /\ req' = [req EXCEPT ![p] = r]
    /\ pc' = [pc EXCEPT ![p] = "acquire"]
    /\ UNCHANGED <<books, writer, readers, loc, resp, pre, last, born, ncreated, script>>

\* books.read().await (lines 35, 43)
AcquireRead(p) ==
    /\ pc[p] = "acquire"
    /\ req[p].op \in ReadOps
    /\ CanRead(writer, readers)
    /\ readers' = readers \cup {p}
    /\ pc' = [pc EXCEPT ![p] = IF req[p].op = "list" THEN "clone" ELSE "find"]
    /\ UNCHANGED <<books, writer, req, loc, resp, pre, last, born, ncreated, script>>

\* a writer that takes shared access, as the readers do
AcquireWriteShared(p) ==
    /\ pc[p] = "acquire"
    /\ req[p].op \in WriteOps
    /\ CanRead(writer, readers)
    /\ readers' = readers \cup {p}
    /\ pc' = [pc EXCEPT ![p] = CASE req[p].op = "create" -> "len"
                                 [] req[p].op = "update" -> "find_mut"
                                 [] req[p].op = "delete" -> "position"]
    /\ UNCHANGED <<books, writer, req, loc, resp, pre, last, born, ncreated, script>>

\* books.write().await (lines 54, 68, 83)
AcquireWrite(p) ==
    /\ pc[p] = "acquire"
    /\ req[p].op \in WriteOps
    /\ CanWrite(writer, readers)
    /\ writer' = p
    /\ pc' = [pc EXCEPT ![p] = CASE req[p].op = "create" -> "len"
                                 [] req[p].op = "update" -> "find_mut"
                                 [] req[p].op = "delete" -> "position"]
    /\ UNCHANGED <<books, readers, req, loc, resp, pre, last, born, ncreated, script>>

\* a listing that takes the books out of the store instead of copying them
CloneTakes(p) ==
    /\ pc[p] = "clone"
    /\ loc' = [loc EXCEPT ![p].snap = books]
    /\ pre' = [pre EXCEPT ![p] = books]
    /\ books' = << >>
    /\ born' = << >>
    /\ pc' = [pc EXCEPT ![p] = "respond"]
    /\ UNCHANGED <<writer, readers, req, resp, last, ncreated, script>>

\* get_books: let books = books.clone() (line 36)
Clone(p) ==
    /\ pc[p] = "clone"
    /\ loc' = [loc EXCEPT ![p].snap = books]
    /\ pre' = [pre EXCEPT ![p] = books]
    /\ pc' = [pc EXCEPT ![p] = "respond"]
    /\ UNCHANGED <<books, writer, readers, req, resp, last, born, ncreated, script>>

\* get_book: books.iter().find(|b| b.id == *id) (line 44)
Find(p) ==
    /\ pc[p] = "find"
    /\ loc' = [loc EXCEPT ![p].index = Position(books, req[p].id)]
    /\ pre' = [pre EXCEPT ![p] = books]
    /\ pc' = [pc EXCEPT ![p] = "respond"]
    /\ UNCHANGED <<books, writer, readers, req, resp, last, born, ncreated, script>>

\* create_book: let id = books.len() as i32 + 1; let book = Book {..} (lines 55-60)
LenStep(p) ==
    /\ pc[p] = "len"
    /\ loc' = [loc EXCEPT ![p].book = Book(NewId(books), req[p].title, req[p].author)]
    /\ pre' = [pre EXCEPT ![p] = books]
    /\ pc' = [pc EXCEPT ![p] = "push"]
    /\ UNCHANGED <<books, writer, readers, req, resp, last, born, ncreated, script>>

\* create_book: books.push(book.clone()) (line 61)
Push(p) ==
    /\ pc[p] = "push"
    /\ books' = VecPush(books, loc[p].book)
    /\ born' = VecPush(born, ncreated + 1)
    /\ ncreated' = ncreated + 1
    /\ pc' = [pc EXCEPT ![p] = "respond"]
    /\ UNCHANGED <<writer, readers, req, loc, resp, pre, last, script>>

\* update_book: books.iter_mut().find(|b| b.id == *id) (line 69)
FindMut(p) ==
    /\ pc[p] = "find_mut"
    /\ LET i == Position(books, req[p].id) IN
          /\ loc' = [loc EXCEPT ![p].index = i]
          /\ pc' = [pc EXCEPT ![p] = IF i = 0 THEN "respond" ELSE "set_title"]
    /\ pre' = [pre EXCEPT ![p] = books]
    /\ UNCHANGED <<books, writer, readers, req, resp, last, born, ncreated, script>>

\* update_book: book.title = new_book.title.clone() (line 72)
SetTitle(p) ==
    /\ pc[p] = "set_title"
    /\ loc[p].index \in DOMAIN books
    /\ books' = [books EXCEPT ![loc[p].index].title = req[p].title]
    /\ pc' = [pc EXCEPT ![p] = "set_author"]
    /\ UNCHANGED <<writer, readers, req, loc, resp, pre, last, born, ncreated, script>>

\* an update that leaves the author as it was
SetAuthorSkipped(p) ==
    /\ pc[p] = "set_author"
    /\ pc' = [pc EXCEPT ![p] = "respond"]
    /\ UNCHANGED <<books, writer, readers, req, loc, resp, pre, last, born, ncreated, script>>

\* update_book: book.author = new_book.author.clone() (line 73)
SetAuthor(p) ==
    /\ pc[p] = "set_author"
    /\ loc[p].index \in DOMAIN books
    /\ books' = [books EXCEPT ![loc[p].index].author = req[p].author]
    /\ pc' = [pc EXCEPT ![p] = "respond"]
    /\ UNCHANGED <<writer, readers, req, loc, resp, pre, last, born, ncreated, script>>

\* delete_book: books.iter().position(|b| b.id == *id) (line 84)
PositionStep(p) ==
    /\ pc[p] = "position"
    /\ LET i == Position(books, req[p].id) IN
          /\ loc' = [loc EXCEPT ![p].index = i]
          /\ pc' = [pc EXCEPT ![p] = IF i = 0 THEN "respond" ELSE "remove"]
    /\ pre' = [pre EXCEPT ![p] = books]
    /\ UNCHANGED <<books, writer, readers, req, resp, last, born, ncreated, script>>

\* delete_book: books.remove(index) (line 87)
Remove(p) ==
    /\ pc[p] = "remove"
    /\ loc[p].index \in DOMAIN books
    /\ books' = VecRemove(books, loc[p].index)
    /\ born' = VecRemove(born, loc[p].index)
    /\ pc' = [pc EXCEPT ![p] = "respond"]
    /\ UNCHANGED <<writer, readers, req, loc, resp, pre, last, ncreated, script>>

\* the HttpResponse each handler builds (lines 37, 45-48, 62, 70-77, 85-91);
\* get_book and update_book serialize the element their reference points at
Response(r, l, bs) ==
    CASE r.op = "list" -> Ok(JsonBooks(l.snap))
      [] r.op = "get" ->
            IF l.index = 0 THEN NotFound
            ELSE Ok(JsonBook(IF l.index \in DOMAIN bs THEN bs[l.index] ELSE NoBook))
      [] r.op = "create" -> Created(JsonBook(l.book))
      [] r.op = "update" ->
            IF l.index = 0 THEN NotFound
            ELSE Ok(JsonBook(IF l.index \in DOMAIN bs THEN bs[l.index] ELSE NoBook))
      [] r.op = "delete" -> IF l.index = 0 THEN NotFound ELSE Deleted

\* the handler builds its response, still holding its guard
Respond(p) ==
    /\ pc[p] = "respond"
    /\ resp' = [resp EXCEPT ![p] = Response(req[p], loc[p], books)]
    /\ last' = [op |-> req[p].op, id |-> req[p].id,
                title |-> req[p].title, author |-> req[p].author,
                pre |-> pre[p], post |-> books,
                resp |-> Response(req[p], loc[p], books)]
    /\ pc' = [pc EXCEPT ![p] = "release"]
    /\ UNCHANGED <<books, writer, readers, req, loc, pre, born, ncreated, script>>

\* a return that leaks the guard: the lock stays taken
ReleaseKeepsGuard(p) ==
    /\ pc[p] = "release"
    /\ pc' = [pc EXCEPT ![p] = "idle"]
    /\ req' = [req EXCEPT ![p] = NoReq]
    /\ loc' = [loc EXCEPT ![p] = NoLoc]
    /\ resp' = [resp EXCEPT ![p] = NoResp]
    /\ pre' = [pre EXCEPT ![p] = << >>]
    /\ UNCHANGED <<books, writer, readers, last, born, ncreated, script>>

\* the handler returns: its guard is dropped at the closing brace
\* (lines 38, 49, 63, 78, 92) and the response goes to the HTTP layer; a test
\* that awaits it in call_service has one more answer and sees its status
Release(p) ==
    /\ pc[p] = "release"
    /\ readers' = readers \ {p}
    /\ writer' = IF writer = p THEN 0 ELSE writer
    /\ pc' = [pc EXCEPT ![p] = "idle"]
    /\ req' = [req EXCEPT ![p] = NoReq]
    /\ loc' = [loc EXCEPT ![p] = NoLoc]
    /\ resp' = [resp EXCEPT ![p] = NoResp]
    /\ pre' = [pre EXCEPT ![p] = << >>]
    /\ script' = [t \in DOMAIN script |->
                     IF t = p THEN [done |-> script[t].done + 1, status |-> resp[p].status]
                     ELSE script[t]]
    /\ UNCHANGED <<books, last, born, ncreated>>

Start(p) == StartOp(p, Ops)

StartCreate(p) == StartOp(p, {"create", "list"})

Step(p) ==
    \/ Start(p)
    \/ AcquireRead(p)
    \/ AcquireWrite(p)
    \/ Clone(p)
    \/ Find(p)
    \/ LenStep(p)
    \/ Push(p)
    \/ FindMut(p)
    \/ SetTitle(p)
    \/ SetAuthor(p)
    \/ PositionStep(p)
    \/ Remove(p)
    \/ Respond(p)
    \/ Release(p)

Next == \E p \in Procs : Step(p)

\* any number of handlers run concurrently
Spec == Init /\ [][Next]_vars

\* one client that waits for each response before it sends the next request
NextSeq == Step(1)

SpecSeq == Init /\ [][NextSeq]_vars

\* concurrent clients that only create books and list them
NextCreates ==
    \E p \in Procs :
        \/ StartCreate(p)
        \/ AcquireRead(p)
        \/ AcquireWrite(p)
        \/ Clone(p)
        \/ LenStep(p)
        \/ Push(p)
        \/ Respond(p)
        \/ Release(p)

SpecCreates == Init /\ [][NextCreates]_vars

(* ------------------------------ routing -------------------------------- *)

\* web::resource(path).route(web::<method>().to(handler)): a resource with
\* one route
Resource(path, method, handler) ==
    [path |-> path, method |-> method, handler |-> handler]

\* the services of main's App in their order of registration (lines 102-106)
MainApp ==
    << Resource("/books", "GET", "list"),
       Resource("/books/{id}", "GET", "get"),
       Resource("/books", "POST", "create"),
       Resource("/books/{id}", "PUT", "update"),
       Resource("/books/{id}", "DELETE", "delete") >>

\* index of the first service of app, from i on, whose pattern matches the
\* path; 0 when none does
RECURSIVE FirstResource(_, _, _)
FirstResource(app, path, i) ==
    IF i > Len(app) THEN 0
    ELSE IF app[i].path = path THEN i
    ELSE FirstResource(app, path, i + 1)

\* App::service: the first service whose pattern matches the path takes the
\* request, and no later service sees it. Inside the resource the route's
\* method guard decides: the route's handler when it passes, the resource's
\* default (405 Method Not Allowed) when it does not. A path no service
\* matches gets the App's default, 404 Not Found.
Dispatch(app, method, path) ==
    LET i == FirstResource(app, path, 1) IN
    IF i = 0 THEN [handler |-> "none", status |-> 404]
    ELSE IF app[i].method # method THEN [handler |-> "none", status |-> 405]
    ELSE [handler |-> app[i].handler, status |-> 0]

\* the request r arrives at an App with the services app and is served by the
\* free process p: its handler starts, or the App answers without a handler
Deliver(p, app, r) ==
    LET d == Dispatch(app, r.method, r.path) IN
    /\ pc[p] = "idle"
    /\ req' = [req EXCEPT ![p] = [r EXCEPT !.op = d.handler]]
    /\ IF d.handler = "none"
       THEN /\ resp' = [resp EXCEPT ![p] = [status |-> d.status, body |-> << >>]]
            /\ pc' = [pc EXCEPT ![p] = "release"]
       ELSE /\ resp' = resp
            /\ pc' = [pc EXCEPT ![p] = "acquire"]
    /\ UNCHANGED <<books, writer, readers, loc, pre, last, born, ncreated, script>>

\* a client sends one of the five requests to the server main builds
Route(p) ==
    \E r \in Requests :
        /\ Dispatch(MainApp, r.method, r.path).handler = "create"
              => ncreated + Cardinality(PendingCreates) < MaxCreates
        /\ Deliver(p, MainApp, r)

\* the server of main under concurrent clients, with the handlers its
\* services start
NextMain ==
    \E p \in Procs :
        \/ Route(p)
        \/ AcquireRead(p)
        \/ Clone(p)
        \/ Find(p)
        \/ Respond(p)
        \/ Release(p)

SpecMain == Init /\ [][NextMain]_vars

(* ------------------------------- tests --------------------------------- *)

TestBody == [title |-> "Book Title", author |-> "Book Author"]

UpdatedBody == [title |-> "Updated Book Title", author |-> "Updated Book Author"]

\* a TestRequest: method, uri (the id of /books/{id} apart) and JSON body
TestRequest(method, path, id, body) ==
    [op |-> "none", method |-> method, path |-> path, id |-> id,
     title |-> body.title, author |-> body.author]

NoBody == [title |-> "", author |-> ""]

\* the five tests of mod tests (lines 121-194): the services of the App each
\* builds, the requests it sends one after the other, and the status it
\* asserts of the last response
Tests ==
    << \* test_get_books
       [app |-> << Resource("/books", "GET", "list") >>,
        reqs |-> << TestRequest("GET", "/books", 0, NoBody) >>,
        expect |-> 200],
       \* test_create_book
       [app |-> << Resource("/books", "POST", "create") >>,
        reqs |-> << TestRequest("POST", "/books", 0, TestBody) >>,
        expect |-> 201],
       \* test_get_book
       [app |-> << Resource("/books", "POST", "create"),
                   Resource("/books/{id}", "GET", "get") >>,
        reqs |-> << TestRequest("POST", "/books", 0, TestBody),
                    TestRequest("GET", "/books/{id}", 1, NoBody) >>,
        expect |-> 200],
       \* test_update_book
       [app |-> << Resource("/books/{id}", "PUT", "update") >>,
        reqs |-> << TestRequest("PUT", "/books/{id}", 1, UpdatedBody) >>,
        expect |-> 200],
       \* test_delete_book
       [app |-> << Resource("/books/{id}", "DELETE", "delete") >>,
        reqs |-> << TestRequest("POST", "/books", 0, TestBody),
                    TestRequest("DELETE", "/books/{id}", 1, NoBody) >>,
        expect |-> 200] >>

TestIds == DOMAIN Tests

\* the store is empty and no test has sent a request
InitTests ==
    /\ books = << >>
    /\ writer = 0
    /\ readers = {}
    /\ pc = [t \in TestIds |-> "idle"]
    /\ req = [t \in TestIds |-> NoReq]
    /\ loc = [t \in TestIds |-> NoLoc]
    /\ resp = [t \in TestIds |-> NoResp]
    /\ pre = [t \in TestIds |-> << >>]
    /\ last = NoLast
    /\ born = << >>
    /\ ncreated = 0
    /\ script = [t \in TestIds |-> [done |-> 0, status |-> 0]]

\* test t calls call_service with its next request, once the response to the
\* one before has come back
TestSend(t) ==
    /\ script[t].done < Len(Tests[t].reqs)
    /\ Deliver(t, Tests[t].app, Tests[t].reqs[script[t].done + 1])

\* the test harness runs the tests on threads of one process: their requests
\* interleave on the one BOOKS
NextTests ==
    \E t \in TestIds :
        \/ TestSend(t)
        \/ AcquireRead(t)
        \/ AcquireWrite(t)
        \/ Clone(t)
        \/ Find(t)
        \/ LenStep(t)
        \/ Push(t)
        \/ FindMut(t)
        \/ SetTitle(t)
        \/ SetAuthor(t)
        \/ PositionStep(t)
        \/ Remove(t)
        \/ Respond(t)
        \/ Release(t)

SpecTests == InitTests /\ [][NextTests]_vars

(* ------------- the handlers as functions of the whole vector ----------- *)

\* first index of bs whose book has the id, 0 when there is none
FirstWithId(bs, id) ==
    IF \E i \in DOMAIN bs : bs[i].id = id
    THEN CHOOSE i \in DOMAIN bs : bs[i].id = id /\ \A j \in 1 .. i - 1 : bs[j].id # id
    ELSE 0

\* v without its i-th element
Without(v, i) == [j \in 1 .. Len(v) - 1 |-> IF j < i THEN v[j] ELSE v[j + 1]]

\* get_books run alone on the vector bs (lines 33-38)
SeqList(bs) == [store |-> bs, resp |-> Ok(JsonBooks(bs))]

\* get_book run alone (lines 41-49)
SeqGet(bs, id) ==
    [store |-> bs,
     resp |-> IF FirstWithId(bs, id) = 0 THEN NotFound
              ELSE Ok(JsonBook(bs[FirstWithId(bs, id)]))]

\* create_book run alone (lines 52-63)
SeqCreate(bs, t, a) ==
    [store |-> bs \o <<Book(Len(bs) + 1, t, a)>>,
     resp |-> Created(JsonBook(Book(Len(bs) + 1, t, a)))]

\* update_book run alone (lines 66-78)
SeqUpdate(bs, id, t, a) ==
    LET i == FirstWithId(bs, id) IN
    IF i = 0 THEN [store |-> bs, resp |-> NotFound]
    ELSE [store |-> [bs EXCEPT ![i] = Book(bs[i].id, t, a)],
          resp |-> Ok(JsonBook(Book(bs[i].id, t, a)))]

\* delete_book run alone (lines 81-92)
SeqDelete(bs, id) ==
    LET i == FirstWithId(bs, id) IN
    IF i = 0 THEN [store |-> bs, resp |-> NotFound]
    ELSE [store |-> Without(bs, i), resp |-> Deleted]

\* the handler of request r run alone on bs
SeqApply(r, bs) ==
    CASE r.op = "list" -> SeqList(bs)
      [] r.op = "get" -> SeqGet(bs, r.id)
      [] r.op = "create" -> SeqCreate(bs, r.title, r.author)
      [] r.op = "update" -> SeqUpdate(bs, r.id, r.title, r.author)
      [] r.op = "delete" -> SeqDelete(bs, r.id)

(* ------------------------------ claims --------------------------------- *)

\* the request of the history record l
ReqOf(l) == [op |-> l.op, id |-> l.id, title |-> l.title, author |-> l.author]

\* the id tokens of a JSON body
IdTokens(body) == {body[k + 1] : k \in {j \in 1 .. Len(body) - 1 : body[j] = "id"}}

\* C1: the requests, taken in the order in which they build their responses
\* (a point between each request's start and its return), form a sequential
\* execution: each one sees the vector exactly as the previous one left it,
\* leaves it and answers as its handler run alone on that vector would, and
\* whenever no writer holds the lock the vector is what the last one left.
Linearizable ==
    /\ \A p \in Procs :
          pc[p] = "respond" =>
              /\ pre[p] = last.post
              /\ SeqApply(req[p], pre[p]).store = books
    /\ \A p \in Procs :
          pc[p] = "release" => resp[p] = SeqApply(req[p], pre[p]).resp
    /\ last.op # "none" =>
          SeqApply(ReqOf(last), last.pre) = [store |-> last.post, resp |-> last.resp]
    /\ writer = 0 => books = last.post

\* C1 witness: an update that found its book holds the write lock and has
\* rewritten it while a list request waits for the lock
LinearizableWitness ==
    \E p, q \in Procs :
        /\ req[p].op = "update" /\ pc[p] = "respond" /\ loc[p].index # 0
        /\ pre[p] # books
        /\ req[q].op = "list" /\ pc[q] = "acquire"

\* C2: no two books in the store have the same id.
UniqueIds ==
    \A i, j \in DOMAIN books : i # j => books[i].id # books[j].id

\* C3: create answers 201 with the book (n + 1, title, author) for a store of
\* n books, the store afterwards is the old one with that book appended, and
\* while no delete has removed a book the k-th create returns id k.
CreateAppends ==
    last.op = "create" =>
        LET b == Book(Len(last.pre) + 1, last.title, last.author) IN
        /\ last.resp = [status |-> 201, body |-> JsonBook(b)]
        /\ Len(last.post) = Len(last.pre) + 1
        /\ \A i \in DOMAIN last.pre : last.post[i] = last.pre[i]
        /\ last.post[Len(last.post)] = b
        /\ (Len(last.post) = ncreated => b.id = ncreated)

\* C3 witness: a create has answered on a store that held two books
CreateAppendsWitness ==
    last.op = "create" /\ Len(last.pre) = 2 /\ last.resp.status = 201

\* C4: when the store holds exactly two books with ids 1 and 2, delete(1)
\* followed by create returns a book with id 2 and leaves two books with id 2.
IdReuseAfterDelete ==
    [][(/\ last.op = "delete" /\ last.id = 1 /\ IdsOf(last.pre) = <<1, 2>>
        /\ last'.op = "create")
       => /\ last'.resp = Created(JsonBook(Book(2, last'.title, last'.author)))
          /\ IdsOf(last'.post) = <<2, 2>>]_vars

\* C4 witness: the book created first is gone and the create after its
\* removal has left two books with id 2
IdReuseAfterDeleteWitness ==
    /\ last.op = "create"
    /\ born = <<2, 3>>
    /\ IdsOf(last.pre) = <<2>>
    /\ IdsOf(books) = <<2, 2>>

\* C5: when create has returned book B and the next request is get(B.id),
\* get answers 200 with a book equal to B in id, title and author.
GetRoundTrip ==
    [][(/\ last.op = "create"
        /\ last'.op = "get"
        /\ ToString(last'.id) \in IdTokens(last.resp.body))
       => last'.resp = [status |-> 200, body |-> last.resp.body]]_vars

\* C6: when delete(id) has succeeded, a get(id) that follows it answers 404
\* and a list that follows it contains no book with that id; after two creates
\* on the empty store and the delete of id 1 the list is the second book alone.
DeleteMakesAbsent ==
    [][(last.op = "delete" /\ last.resp = Deleted)
       => /\ (last'.op = "get" /\ last'.id = last.id) => last'.resp.status = 404
          /\ last'.op = "list" => ToString(last.id) \notin IdTokens(last'.resp.body)
          /\ (last'.op = "list" /\ last.id = 1 /\ IdsOf(last.pre) = <<1, 2>>)
                => last'.resp = Ok(JsonBooks(<<last.pre[2]>>))]_vars

\* C7: update(id, title, author) on a store with a book of that id rewrites
\* the title and the author of one book of that id, keeps its id and its
\* position, leaves the other books and the length alone and returns the
\* rewritten book; a get(id) that follows returns that book.
UpdateInPlace ==
    [][/\ (last'.op = "update" /\ \E i \in DOMAIN last'.pre : last'.pre[i].id = last'.id)
          => \E i \in DOMAIN last'.pre :
                /\ last'.pre[i].id = last'.id
                /\ Len(last'.post) = Len(last'.pre)
                /\ last'.post[i] = Book(last'.id, last'.title, last'.author)
                /\ \A j \in DOMAIN last'.pre : j # i => last'.post[j] = last'.pre[j]
                /\ last'.resp = Ok(JsonBook(last'.post[i]))
       /\ (/\ last.op = "update" /\ last.resp.status = 200
           /\ last'.op = "get" /\ last'.id = last.id)
          => last'.resp = Ok(JsonBook(Book(last.id, last.title, last.author)))]_vars

\* C7 witness: a get of the id that the preceding update rewrote is about to
\* answer, on a store of two books whose content the update changed
UpdateInPlaceWitness ==
    /\ last.op = "update" /\ last.resp.status = 200
    /\ last.pre # last.post /\ Len(last.pre) = 2
    /\ \E p \in Procs : pc[p] = "respond" /\ req[p].op = "get" /\ req[p].id = last.id

\* C8: a successful delete(id) makes the store one shorter, and what remains
\* is the previous sequence without one book of that id, values and order
\* kept; the stored books always stand in the order of their creation.
DeleteRemovesOne ==
    /\ (last.op = "delete" /\ last.resp = Deleted)
          => /\ Len(last.post) = Len(last.pre) - 1
             /\ \E i \in DOMAIN last.pre :
                   /\ last.pre[i].id = last.id
                   /\ last.post = Without(last.pre, i)
    /\ Len(born) = Len(books)
    /\ \A i, j \in DOMAIN born : i < j => born[i] < born[j]

\* C8 witness: a delete has removed the first of three books
DeleteRemovesOneWitness ==
    /\ last.op = "delete" /\ last.resp = Deleted
    /\ Len(last.pre) = 3 /\ last.pre[1].id = last.id

\* C9: get, update and delete with an id that no stored book has answer 404
\* and leave the store as it was.
NotFoundNoMutation ==
    (/\ last.op \in {"get", "update", "delete"}
     /\ \A i \in DOMAIN last.pre : last.pre[i].id # last.id)
    => /\ last.resp.status = 404
       /\ last.post = last.pre

\* C9 witness: an update with an absent id has answered on a store of two books
NotFoundNoMutationWitness ==
    /\ last.op = "update" /\ last.resp = NotFound
    /\ Len(last.pre) = 2
    /\ last.id \notin {last.pre[1].id, last.pre[2].id}

\* C10: with only creates (and lists) issued, every create answers 201 with a
\* book that is in the store at the position of its id, and once all N creates
\* have returned the store, and a list taken then, hold exactly N books with
\* the ids 1 .. N.
ConcurrentCreates ==
    /\ \A p \in Procs :
          (req[p].op = "create" /\ pc[p] = "release")
          => /\ resp[p].status = 201
             /\ loc[p].book.id \in DOMAIN books
             /\ resp[p].body = JsonBook(books[loc[p].book.id])
    /\ (\A p \in Procs : req[p].op # "create")
          => /\ IdsOf(books) = [i \in 1 .. ncreated |-> i]
             /\ \A p \in Procs :
                   (req[p].op = "list" /\ pc[p] = "release")
                   => /\ resp[p] = Ok(JsonBooks(books))
                      /\ IdTokens(resp[p].body) = {ToString(i) : i \in 1 .. ncreated}

\* C10 witness: a create has answered with id 2 and still holds the lock
\* while another create waits for it
ConcurrentCreatesWitness ==
    \E p, q \in Procs :
        /\ req[p].op = "create" /\ pc[p] = "release" /\ loc[p].book.id = 2
        /\ req[q].op = "create" /\ pc[q] = "acquire"

\* C11: list answers 200 with all stored books in the store's order and
\* leaves the store as it was, get leaves the store as it was (no step of
\* either handler changes the vector), and a list that follows a list with
\* no other request in between returns the same body.
ListIdempotent ==
    [][/\ last'.op = "list"
          => /\ last'.resp = [status |-> 200, body |-> JsonBooks(last'.pre)]
             /\ last'.post = last'.pre
       /\ last'.op = "get" => last'.post = last'.pre
       /\ \A p \in Procs : (pc'[p] # pc[p] /\ req[p].op \in ReadOps) => books' = books
       /\ (last.op = "list" /\ last'.op = "list") => last'.resp = last.resp]_vars

\* C11 witness: a second list in a row is about to answer on a store of two books
ListIdempotentWitness ==
    /\ last.op = "list" /\ Len(last.pre) = 2
    /\ \E p \in Procs : pc[p] = "respond" /\ req[p].op = "list" /\ loc[p].snap = last.pre

\* a book with the id of the history record l was stored when its handler ran
StoredBefore(l) == \E i \in DOMAIN l.pre : l.pre[i].id = l.id

\* C13: list answers 200, create answers 201, get, update and delete answer
\* 200 when a book with the id is stored and 404 when none is; there is no
\* other status.
StatusCodes ==
    /\ last.op = "list" => last.resp.status = 200
    /\ last.op = "create" => last.resp.status = 201
    /\ last.op \in {"get", "update", "delete"}
          => last.resp.status = IF StoredBefore(last) THEN 200 ELSE 404
    /\ \A p \in Procs : pc[p] = "release" => resp[p].status \in {200, 201, 404}

\* C13 witness: a delete of a stored id has answered 200 on a store of two books
StatusCodesWitness ==
    /\ last.op = "delete" /\ last.resp.status = 200
    /\ Len(last.pre) = 2 /\ StoredBefore(last)

\* C15: no handler builds its response while it still holds the read or the
\* write lock.
LockFreeWhileResponding ==
    \A p \in Procs : pc[p] = "respond" => (p \notin readers /\ writer # p)

\* the handlers that are between a write().await that was granted and their return
WriteHolders ==
    {p \in Procs :
        \/ pc[p] \in {"len", "push", "find_mut", "set_title", "set_author", "position", "remove"}
        \/ pc[p] \in {"respond", "release"} /\ req[p].op \in WriteOps}

\* the handlers that are between a read().await that was granted and their return
ReadHolders ==
    {p \in Procs :
        \/ pc[p] \in {"clone", "find"}
        \/ pc[p] \in {"respond", "release"} /\ req[p].op \in ReadOps}

\* C16: list and get touch the vector only with shared access, create, update
\* and delete only with exclusive access; at most one writer holds the lock
\* and no reader holds it at the same time.
ReaderWriterDiscipline ==
    /\ ReadHolders = readers
    /\ WriteHolders = IF writer = 0 THEN {} ELSE {writer}
    /\ Cardinality(WriteHolders) <= 1
    /\ WriteHolders # {} => ReadHolders = {}
    /\ \A p \in ReadHolders : req[p].op \in ReadOps
    /\ \A p \in WriteHolders : req[p].op \in WriteOps

\* C16 witness: two readers hold the lock together
ReaderWriterDisciplineWitness ==
    /\ Cardinality(readers) = 2
    /\ \E p, q \in readers : pc[p] = "clone" /\ pc[q] = "find"

\* the positions of l.pre whose book has the id of l
Matches(l) == {i \in DOMAIN l.pre : l.pre[i].id = l.id}

\* the lowest of them
LowestMatch(l) == CHOOSE i \in Matches(l) : \A j \in Matches(l) : i <= j

\* C18: when several stored books have the id, get returns the one at the
\* lowest position, update rewrites only that one and delete removes only
\* that one.
FirstMatch ==
    Cardinality(Matches(last)) >= 2 =>
        LET i == LowestMatch(last) IN
        /\ last.op = "get"
              => last.resp = Ok(JsonBook(last.pre[i])) /\ last.post = last.pre
        /\ last.op = "update"
              => /\ last.post = [last.pre EXCEPT ![i] = Book(last.id, last.title, last.author)]
                 /\ last.resp = Ok(JsonBook(Book(last.id, last.title, last.author)))
        /\ last.op = "delete"
              => last.post = Without(last.pre, i) /\ last.resp = Deleted

\* C18 witness: a get has answered on two books that share the id and differ
\* in title
FirstMatchWitness ==
    /\ last.op = "get" /\ Len(last.pre) = 2
    /\ Matches(last) = {1, 2}
    /\ last.pre[1].title # last.pre[2].title

\* no remove has taken a book out of the vector so far
NoDeleteYet == born = [i \in 1 .. ncreated |-> i]

\* C19: as long as no delete has succeeded, the book at position i has id i.
PositionalIds ==
    NoDeleteYet => \A i \in DOMAIN books : books[i].id = i

\* C19 witness: three books are stored, no delete has succeeded, a delete has
\* just failed and an update is rewriting a book
PositionalIdsWitness ==
    /\ NoDeleteYet /\ Len(books) = 3
    /\ last.op = "delete" /\ last.resp = NotFound
    /\ \E p \in Procs : pc[p] = "set_author"

\* C20: the book at position i has an id of at least i, and get, update and
\* delete with an id of 0 or below answer 404 and change nothing.
PositionalIdBound ==
    /\ \A i \in DOMAIN books : books[i].id >= i
    /\ (last.op \in {"get", "update", "delete"} /\ last.id <= 0)
          => last.resp = NotFound /\ last.post = last.pre

\* C20 witness: a stored book has an id above its position and an update of
\* id 0 has answered
PositionalIdBoundWitness ==
    /\ Len(books) >= 1 /\ books[1].id > 1
    /\ last.op = "update" /\ last.id = 0

\* a step of handler p after its request has arrived
Work(p) ==
    \/ AcquireRead(p)
    \/ AcquireWrite(p)
    \/ Clone(p)
    \/ Find(p)
    \/ LenStep(p)
    \/ Push(p)
    \/ FindMut(p)
    \/ SetTitle(p)
    \/ SetAuthor(p)
    \/ PositionStep(p)
    \/ Remove(p)
    \/ Respond(p)
    \/ Release(p)

\* a request that addresses id 0 or 1 and carries the first NewBook body
StartLive(p) == StartOp(p, Ops) /\ req'[p].id <= 1 /\ req'[p].title # "T2"

NextLive == \E p \in Procs : StartLive(p) \/ Work(p)

\* the runtime polls every handler that can take a step: none is left
\* runnable forever without running
SpecLive == Init /\ [][NextLive]_vars /\ \A p \in Procs : WF_vars(Work(p))

\* no request arrives in this step
NoArrival == \A p \in Procs : ~(pc[p] = "idle" /\ pc'[p] = "acquire")

\* some handler has a request and none of them can take a step
Stuck == (\E p \in Procs : pc[p] # "idle") /\ ~ENABLED (\E p \in Procs : Work(p))

\* C12: no state is a deadlock, and when only finitely many requests arrive
\* every request that has arrived gets the lock, builds its response and
\* returns.
EveryRequestCompletes ==
    /\ []~Stuck
    /\ (<>[][NoArrival]_vars)
          => \A p \in Procs : (pc[p] = "acquire") ~> (pc[p] = "idle")

\* C12 witness: a writer waits for the lock while a reader holds it
EveryRequestCompletesWitness ==
    \E p, q \in Procs :
        /\ pc[p] = "acquire" /\ req[p].op \in WriteOps
        /\ pc[q] = "clone" /\ q \in readers

\* C14: in the server main assembles, every request in flight is with the
\* handler of its method and path: GET /books with list, GET /books/{id} with
\* get, POST /books with create, PUT /books/{id} with update and
\* DELETE /books/{id} with delete
RoutesReachHandlers ==
    \A p \in Procs :
        pc[p] # "idle" =>
            /\ (req[p].method = "GET" /\ req[p].path = "/books") => req[p].op = "list"
            /\ (req[p].method = "GET" /\ req[p].path = "/books/{id}") => req[p].op = "get"
            /\ (req[p].method = "POST" /\ req[p].path = "/books") => req[p].op = "create"
            /\ (req[p].method = "PUT" /\ req[p].path = "/books/{id}") => req[p].op = "update"
            /\ (req[p].method = "DELETE" /\ req[p].path = "/books/{id}")
                  => req[p].op = "delete"

\* C17: whatever the order and interleaving of the five tests on the one
\* store, a test that has received its last response finds the status it
\* asserts
TestsPass ==
    \A t \in DOMAIN script :
        script[t].done = Len(Tests[t].reqs) => script[t].status = Tests[t].expect

====
